---- MODULE Spec2Model ----
(***************************************************************************)
(* Model of src/utils/imageOptimizer.ts (optimizeImage and its helpers).   *)
(*                                                                         *)
(* One optimizeImage call is an async function: it runs synchronously up   *)
(* to each await, so every action below is the code between two awaits.    *)
(* The awaited capabilities (getImageDimensions, smartResizeImage,         *)
(* imageCompression, convertToWebP) are the environment: each settles with *)
(* a failure or with an output drawn from a small set.                     *)
(*                                                                         *)
(* Encoding of JavaScript values as integers: booleans are 1 / 0, the      *)
(* caller's callback is 1, `undefined` is Undef, a key that is not present *)
(* in an object literal is Absent. quality is in hundredths (0.8 is 80).   *)
(***************************************************************************)
EXTENDS Integers, Sequences, FiniteSets

VARIABLES
    pc,                 \* where the call stands: idle, probe, resize, ...
    imageFile,          \* argument 1 of optimizeImage
    customOptions,      \* argument 2 of optimizeImage
    options,            \* the merged options (line 95)
    webpSupported,      \* what isWebPSupported() answers in this runtime
    progress,           \* values delivered to the caller's onProgress
    libProgress,        \* the library's progress values relayed to onProgress
    calls,              \* capabilities invoked so far, in order
    outcome,            \* per stage: none, ok, fail
    originalDimensions, \* line 122
    smartDimensions,    \* line 140
    processedFile,      \* line 131
    compressedFile,     \* line 193
    webpFile,           \* line 211
    finalFile,          \* line 202
    result,             \* the file the call returned
    compressionOptions, \* lines 172-193: what imageCompression was called with
    objectURLs,         \* lines 267-272: object URLs created and not yet revoked
    moduleOptions,      \* lines 55-65: the module's defaultOptions object
    parked,             \* a second call in flight: its locals while the
                        \* first one runs
    current,            \* which of the two calls the call variables belong to
    calcIn,             \* arguments of a direct calculateSmartDimensions call
    calcOut,            \* its result
    clientVariant,      \* which version of utils/supabase.ts is loaded
    supabaseClient,     \* the module variable supabaseClient
    constructed,        \* how many times createBrowserClient has been called
    returned,           \* what the createClient() calls returned, in order
    authCallCount,      \* the module variable authCallCount
    authLogs,           \* how many times the getUser wrapper has logged
    unreadCount,        \* NotificationIndicator: useState(0), line 441
    isLoading,          \* NotificationIndicator: useState(true), line 442
    mounted,            \* the component: not mounted yet, mounted, unmounted
    fetches             \* the fetchUnreadCount calls, in the order they started

vars == <<pc, imageFile, customOptions, options, webpSupported, progress,
          libProgress, calls, outcome, originalDimensions, smartDimensions,
          processedFile, compressedFile, webpFile, finalFile, result,
          compressionOptions, objectURLs, moduleOptions, parked, current,
          calcIn, calcOut, clientVariant, supabaseClient, constructed,
          returned, authCallCount, authLogs, unreadCount, isLoading, mounted,
          fetches>>

calcVars == <<calcIn, calcOut>>

clientVars == <<clientVariant, supabaseClient, constructed, returned,
                authCallCount, authLogs>>

twoVars == <<parked, current>>

notifVars == <<unreadCount, isLoading, mounted, fetches>>

\* what a step of optimizeImage leaves alone
otherVars == <<calcVars, clientVars, twoVars, notifVars>>

pipeVars == <<pc, imageFile, customOptions, options, webpSupported, progress,
              libProgress, calls, outcome, originalDimensions, smartDimensions,
              processedFile, compressedFile, webpFile, finalFile, result,
              compressionOptions, objectURLs, moduleOptions>>

---------------------------------------------------------------------------
(* Bounds *)

\* how many times the compression library calls its progress callback
MaxLibProgress == 2

\* file sizes range up to SkipLimit + MaxExcess bytes
MaxExcess == 2

\* calculateSmartDimensions is applied to widths and heights 100, 200, ...,
\* 100 * MaxDimK pixels
MaxDimK == 12

\* how many createClient() calls are followed
MaxClientCalls == 4

\* how many auth.getUser() calls are followed
MaxAuthCalls == 10

\* how many fetchUnreadCount calls a mounted NotificationIndicator makes
MaxFetches == 3

\* the unread counts the notifications query answers range over 0 .. MaxCount
MaxCount == 2

---------------------------------------------------------------------------
(* JavaScript values *)

Undef == -1

Absent == -2

Truthy(x) == x \notin {Undef, Absent, 0}

Min(a, b) == IF a <= b THEN a ELSE b

Max(a, b) == IF a >= b THEN a ELSE b

Abs(a) == IF a >= 0 THEN a ELSE -a

\* Math.round of the rational num / den (den > 0, num >= 0): floor(x + 1/2)
MathRound(num, den) == (2 * num + den) \div (2 * den)

---------------------------------------------------------------------------
(* Files *)

NoFile == [kind |-> "none", id |-> "none", size |-> 0, type |-> "", enc |-> ""]

NullInput == [kind |-> "null", id |-> "input", size |-> 0, type |-> "", enc |-> ""]

\* a value that is not a File instance (a plain object, a string, ...)
ObjectInput == [kind |-> "object", id |-> "input", size |-> 0, type |-> "", enc |-> ""]

SkipLimit == 50 * 1024

InputSizes == (SkipLimit - 1) .. (SkipLimit + 1)

OutputSizes == SkipLimit .. (SkipLimit + MaxExcess)

FileTypes == {"image/jpeg", "image/webp", "text/plain", ""}

InputFiles ==
    [kind : {"File"}, id : {"input"}, size : InputSizes, type : FileTypes,
     enc : {"orig"}]

Inputs == {NullInput, ObjectInput} \cup InputFiles

\* `new File([blob], name, {type})`
NewFile(id, size, type, enc) ==
    [kind |-> "File", id |-> id, size |-> size, type |-> type, enc |-> enc]

\* `x.type || 'image/jpeg'`
TypeOrJpeg(f) == IF f.type = "" THEN "image/jpeg" ELSE f.type

---------------------------------------------------------------------------
(* Options *)

OptionKeys ==
    {"maxWidthOrHeight", "maxSizeMB", "quality", "useWebP", "debug",
     "onProgress", "enableSmartResize", "maxSmartDimension", "resizeThreshold"}

defaultOptions ==
    [maxWidthOrHeight |-> 1920, maxSizeMB |-> 1, quality |-> 80, useWebP |-> 1,
     debug |-> 0, onProgress |-> Undef, enableSmartResize |-> 1,
     maxSmartDimension |-> 400, resizeThreshold |-> 800]

\* what a caller may pass for each key, besides leaving it out
CustomValues ==
    [maxWidthOrHeight |-> {Undef}, maxSizeMB |-> {Undef}, quality |-> {Undef, 60},
     useWebP |-> {Undef, 0}, debug |-> {1}, onProgress |-> {1},
     enableSmartResize |-> {0}, maxSmartDimension |-> {300},
     resizeThreshold |-> {Undef, 0, 500, 1200}]

\* `{}` (and a call without a second argument: spreading undefined adds no key)
NoCustom == [k \in OptionKeys |-> Absent]

\* the objects of S with one more key set (or one key set again)
WithOneKey(S) ==
    UNION {{[c EXCEPT ![k] = v] : v \in CustomValues[k]} : c \in S, k \in OptionKeys}

\* the customOptions objects of the model: at most two keys present
CustomOptionSets ==
    {NoCustom} \cup WithOneKey({NoCustom}) \cup WithOneKey(WithOneKey({NoCustom}))

\* mutant: the merge writes into the defaults, Object.assign(defaultOptions,
\* customOptions)
DefaultsAfterMerge_Assign(defaults, custom) ==
    [k \in OptionKeys |-> IF custom[k] = Absent THEN defaults[k] ELSE custom[k]]

\* line 95: the spread builds a new object and leaves defaultOptions as it is
DefaultsAfterMerge(defaults, custom) == defaults

\* `{ ...defaultOptions, ...customOptions }`: every own key of customOptions,
\* also one whose value is undefined, replaces the default
MergeOptions(defaults, custom) ==
    [k \in OptionKeys |-> IF custom[k] = Absent THEN defaults[k] ELSE custom[k]]

---------------------------------------------------------------------------
(* Progress *)

\* updateProgress(num / den) applied to the sequence of delivered values
updateProgress(prog, opts, num, den) ==
    IF Truthy(opts.onProgress)
    THEN Append(prog, Min(MathRound(num, den), 100))
    ELSE prog

\* mutant: the library's value is passed on unmapped
MappedProgressTimes2_Unmapped(p) == 2 * p

\* compressionOptions.onProgress: 15 + progress * 0.5, as a fraction over 2
MappedProgressTimes2(p) == 30 + p

LibProgressValues == {1, 100}

---------------------------------------------------------------------------
(* Dimensions *)

NoDims == [width |-> 0, height |-> 0]

Dims(w, h) == [width |-> w, height |-> h]

\* what the dimension probe can report in the pipeline
ProbeDims == {Dims(1200, 600), Dims(800, 800), Dims(900, 100)}

\* mutant: only equal sides count as square
isSquare_Exact(w, h) == w = h

\* Math.abs(originalWidth / originalHeight - 1) < 0.1 in IEEE-754 doubles.
\* For widths and heights that are small multiples of one unit the quotient
\* is nearer to 0.9 or 1.1 than a rounding error only when it is exactly
\* 9/10 or 11/10: (9/10 - 1) evaluates to -0.09999999999999998, which is
\* below 0.1, and (11/10 - 1) to 0.10000000000000009, which is not.
isSquare(w, h) == 10 * Abs(w - h) < h \/ 10 * w = 9 * h

\* mutant: the longer side is capped at the maxDimension argument
calculateSmartDimensions_Capped(w, h, maxDimension) ==
    IF isSquare(w, h) THEN Dims(200, 200)
    ELSE IF w > h THEN Dims(Min(MathRound(200 * w, h), maxDimension), 200)
    ELSE Dims(200, Min(MathRound(200 * h, w), maxDimension))

\* lines 343-371; the third argument is not used
calculateSmartDimensions(w, h, maxDimension) ==
    IF isSquare(w, h) THEN Dims(200, 200)
    ELSE IF w > h THEN Dims(MathRound(200 * w, h), 200)
    ELSE Dims(200, MathRound(200 * h, w))

---------------------------------------------------------------------------
(* Decisions of optimizeImage *)

\* mutant: only the null check of line 90
Invalid_NullOnly(f) == f.kind = "null"

\* line 90: !imageFile || !(imageFile instanceof File)
Invalid(f) == f.kind # "File"

\* mutant: a strict comparison in line 112
ShouldSkip_Strict(f) == f.size < SkipLimit

\* line 112: imageFile.size <= 50 * 1024
ShouldSkip(f) == f.size <= SkipLimit

\* line 137: options.resizeThreshold || 800
EffectiveThreshold(opts) ==
    IF Truthy(opts.resizeThreshold) THEN opts.resizeThreshold ELSE 800

\* line 143: options.maxSmartDimension || 400
EffectiveMaxSmart(opts) ==
    IF Truthy(opts.maxSmartDimension) THEN opts.maxSmartDimension ELSE 400

\* lines 132-137: smart resize is attempted
ResizeTriggered(opts, dims) ==
    /\ Truthy(opts.enableSmartResize)
    /\ dims # NoDims
    /\ Max(dims.width, dims.height) > EffectiveThreshold(opts)

\* line 177: initialQuality handed to the compression library
InitialQuality(opts, processed, original) ==
    IF processed # original THEN 90 ELSE opts.quality

\* mutant: the library's file is kept whatever its size
KeepCompressed_Always(compressed, processed) == compressed

\* lines 198-200: a compressed file larger than its input is dropped
KeepCompressed(compressed, processed) ==
    IF compressed.size > processed.size THEN processed ELSE compressed

\* line 190: options.useWebP && isWebPSupported()
UseWebP(opts, supported) == Truthy(opts.useWebP) /\ supported

\* mutant: the type of the file is not looked at
AttemptWebP_IgnoreType(opts, supported, fileType) == UseWebP(opts, supported)

\* line 206: useWebP && !fileType.includes('webp')
AttemptWebP(opts, supported, fileType) ==
    UseWebP(opts, supported) /\ fileType # "image/webp"

\* mutant: a WebP file of equal size is accepted
AcceptWebP_OrEqual(webp, compressed) == webp.size <= compressed.size

\* line 219: webpFile.size < compressedFile.size
AcceptWebP(webp, compressed) == webp.size < compressed.size

\* mutant: the catch block reports nothing
CatchProgress_Silent(prog, opts) == prog

\* line 246: the catch block reports 100
CatchProgress(prog, opts) == updateProgress(prog, opts, 100, 1)

\* mutant: the catch block returns the latest intermediate
CatchResult_LastGood(original, processed, compressed) ==
    IF compressed # NoFile THEN compressed
    ELSE IF processed # NoFile THEN processed ELSE original

\* line 249: the catch block returns the original file; processedFile and
\* compressedFile are scoped to the try block
CatchResult(original, processed, compressed) == original

---------------------------------------------------------------------------
(* utils/supabase.ts *)

\* `null`, the value of supabaseClient before the lazy version creates it
NoClient == 0

\* the versions of the module: created on first use (supabase.ts:1-17),
\* created at load (supabase.ts:18-32), created at load with the getUser
\* wrapper logging every 10th call (supabase.ts:34-63) or every 5th
\* (unnamed/part_000)
ClientVariants == {"lazy", "eager", "eagerLog10", "eagerLog5"}

\* createBrowserClient(url, anonKey): a new client object at every call;
\* objects are numbered in the order of their construction
createBrowserClient(made) == made + 1

\* mutant: the existence check of the lazy createClient always passes
NeedsClient_Always(client) == TRUE

\* supabase.ts:9: !supabaseClient
NeedsClient(client) == client = NoClient

\* the modulus of the getUser wrapper's log line (0: no wrapper)
LogEvery(variant) ==
    CASE variant = "eagerLog10" -> 10
      [] variant = "eagerLog5" -> 5
      [] OTHER -> 0

---------------------------------------------------------------------------
(* The state before the call *)

\* line 272: img.src = URL.createObjectURL(file)
createObjectURL(urls) == urls + 1

\* line 267: URL.revokeObjectURL(img.src) in img.onload
RevokeOnLoad(urls) == urls - 1

\* mutant: img.onerror does not revoke the URL
RevokeOnError_Missing(urls) == urls

\* line 271: URL.revokeObjectURL(img.src) in img.onerror
RevokeOnError(urls) == urls - 1

\* lines 262-271: the image loads (ok) or fails to load
ProbeFinished(urls, ok) == IF ok THEN RevokeOnLoad(urls) ELSE RevokeOnError(urls)

\* imageCompression has not been called
NoCompression == [file |-> NoFile, initialQuality |-> Absent]

NoOutcome ==
    [probe |-> "none", resize |-> "none", compress |-> "none", webp |-> "none",
     debug |-> "none"]

\* the locals of a call that has not been made
NoCall ==
    [pc |-> "idle", imageFile |-> NoFile, customOptions |-> NoCustom,
     options |-> defaultOptions, progress |-> <<>>, libProgress |-> <<>>,
     calls |-> <<>>, outcome |-> NoOutcome, originalDimensions |-> NoDims,
     smartDimensions |-> NoDims, processedFile |-> NoFile,
     compressedFile |-> NoFile, webpFile |-> NoFile, finalFile |-> NoFile,
     result |-> NoFile, compressionOptions |-> NoCompression]

Init ==
    /\ pc = "idle"
    /\ imageFile = NoFile
    /\ customOptions = NoCustom
    /\ options = defaultOptions
    /\ webpSupported \in BOOLEAN
    /\ progress = <<>>
    /\ libProgress = <<>>
    /\ calls = <<>>
    /\ outcome = NoOutcome
    /\ originalDimensions = NoDims
    /\ smartDimensions = NoDims
    /\ processedFile = NoFile
    /\ compressedFile = NoFile
    /\ webpFile = NoFile
    /\ finalFile = NoFile
    /\ result = NoFile
    /\ compressionOptions = NoCompression
    /\ objectURLs = 0
    /\ moduleOptions = defaultOptions
    /\ parked = NoCall
    /\ current = 1
    /\ calcIn = <<>>
    /\ calcOut = NoDims
    /\ clientVariant = "lazy"
    /\ supabaseClient = NoClient
    /\ constructed = 0
    /\ returned = <<>>
    /\ authCallCount = 0
    /\ authLogs = 0
    /\ unreadCount = 0
    /\ isLoading = TRUE
    /\ mounted = "no"
    /\ fetches = <<>>

---------------------------------------------------------------------------
(* Continuations shared by several steps *)

\* lines 166-193: from `const fileType` to the await of imageCompression
EnterCompression(prog, cs, processed) ==
    /\ progress' = updateProgress(prog, options, 15, 1)
    /\ compressionOptions' =
           [file |-> processed,
            initialQuality |-> InitialQuality(options, processed, imageFile)]
    /\ calls' = Append(cs, "compress")
    /\ pc' = "compress"

\* lines 229-242: the log lines, the debug block, the final progress update
Finish(prog, cs, final) ==
    IF Truthy(options.debug)
    THEN /\ pc' = "debug1"
         /\ calls' = Append(cs, "debugProbe")
         /\ progress' = prog
         /\ result' = NoFile
         /\ objectURLs' = createObjectURL(objectURLs)
    ELSE /\ pc' = "done"
         /\ calls' = cs
         /\ objectURLs' = objectURLs
         /\ progress' = updateProgress(prog, options, 100, 1)
         /\ result' = final

\* mutant: the catch block rethrows
Catch_Rethrow(prog) ==
    /\ pc' = "thrown"
    /\ progress' = prog
    /\ result' = result

\* lines 243-250: the catch block of the outer try
Catch(prog) ==
    /\ pc' = "done"
    /\ progress' = CatchProgress(prog, options)
    /\ result' = CatchResult(imageFile, processedFile, compressedFile)

---------------------------------------------------------------------------
(* Steps of one optimizeImage call *)

\* lines 85-124: the call, up to the return of the skip rule or the first await
optimizeImage(f, custom) ==
    /\ pc = "idle"
    /\ imageFile' = f
    /\ customOptions' = custom
    /\ UNCHANGED <<webpSupported, libProgress, outcome, originalDimensions,
                   smartDimensions, processedFile, compressedFile, webpFile,
                   finalFile, compressionOptions>>
    /\ IF Invalid(f)
       THEN /\ pc' = "thrown"
            /\ UNCHANGED <<options, progress, calls, result, objectURLs,
                           moduleOptions>>
       ELSE LET opts == MergeOptions(moduleOptions, custom)
                p5 == updateProgress(progress, opts, 5, 1)
            IN  /\ options' = opts
                /\ moduleOptions' = DefaultsAfterMerge(moduleOptions, custom)
                /\ IF ShouldSkip(f)
                   THEN /\ progress' = updateProgress(p5, opts, 100, 1)
                        /\ result' = f
                        /\ pc' = "done"
                        /\ calls' = calls
                        /\ objectURLs' = objectURLs
                   ELSE /\ progress' = p5
                        /\ result' = result
                        /\ pc' = "probe"
                        /\ calls' = Append(calls, "probe")
                        /\ objectURLs' = createObjectURL(objectURLs)

\* mutant: smartResizeImage is called without await, and the code runs on to
\* imageCompression with the unresized file
ProbeSettled_ResizeNotAwaited(dims) ==
    /\ pc = "probe"
    /\ originalDimensions' = dims
    /\ outcome' = [outcome EXCEPT !.probe = IF dims = NoDims THEN "fail" ELSE "ok"]
    /\ objectURLs' = ProbeFinished(objectURLs, dims # NoDims)
    /\ UNCHANGED <<imageFile, customOptions, options, webpSupported,
                   moduleOptions, libProgress,
                   compressedFile, webpFile, finalFile, result>>
    /\ processedFile' = imageFile
    /\ LET p10 == IF dims = NoDims THEN progress
                  ELSE updateProgress(progress, options, 10, 1)
       IN  IF ResizeTriggered(options, dims)
           THEN /\ smartDimensions' =
                       calculateSmartDimensions(dims.width, dims.height,
                                                EffectiveMaxSmart(options))
                /\ EnterCompression(updateProgress(p10, options, 12, 1),
                                    Append(calls, "resize"), imageFile)
           ELSE /\ smartDimensions' = smartDimensions
                /\ EnterCompression(p10, calls, imageFile)

\* lines 124-149 (or -193): getImageDimensions settles with dims, or rejects
\* (dims = NoDims); the code runs on to the next await
ProbeSettled(dims) ==
    /\ pc = "probe"
    /\ originalDimensions' = dims
    /\ outcome' = [outcome EXCEPT !.probe = IF dims = NoDims THEN "fail" ELSE "ok"]
    /\ objectURLs' = ProbeFinished(objectURLs, dims # NoDims)
    /\ UNCHANGED <<imageFile, customOptions, options, webpSupported,
                   moduleOptions, libProgress,
                   compressedFile, webpFile, finalFile, result>>
    /\ LET p10 == IF dims = NoDims THEN progress
                  ELSE updateProgress(progress, options, 10, 1)
       IN  IF ResizeTriggered(options, dims)
           THEN /\ progress' = updateProgress(p10, options, 12, 1)
                /\ smartDimensions' =
                       calculateSmartDimensions(dims.width, dims.height,
                                                EffectiveMaxSmart(options))
                /\ processedFile' = imageFile
                /\ calls' = Append(calls, "resize")
                /\ pc' = "resize"
                /\ UNCHANGED compressionOptions
           ELSE /\ smartDimensions' = smartDimensions
                /\ processedFile' = imageFile
                /\ EnterCompression(p10, calls, imageFile)

\* lines 149-193: smartResizeImage settles with a file of `size` bytes, or
\* rejects (ok = FALSE)
ResizeSettled(ok, size) ==
    /\ pc = "resize"
    /\ outcome' = [outcome EXCEPT !.resize = IF ok THEN "ok" ELSE "fail"]
    /\ UNCHANGED <<imageFile, customOptions, options, webpSupported,
                   moduleOptions, libProgress,
                   originalDimensions, smartDimensions, compressedFile, webpFile,
                   finalFile, result, objectURLs>>
    /\ IF ok
       THEN LET resizedFile == NewFile("resized", size, TypeOrJpeg(imageFile),
                                       "canvas")
            IN  /\ processedFile' = resizedFile
                /\ EnterCompression(updateProgress(progress, options, 14, 1),
                                    calls, resizedFile)
       ELSE /\ processedFile' = imageFile
            /\ EnterCompression(progress, calls, imageFile)

\* lines 182-186: the library calls compressionOptions.onProgress(p), whose
\* only effect is updateProgress: nothing happens without a caller callback
CompressProgress(p) ==
    /\ pc = "compress"
    /\ Len(libProgress) < MaxLibProgress
    /\ libProgress' = IF Truthy(options.onProgress) THEN Append(libProgress, p)
                      ELSE libProgress
    /\ progress' = updateProgress(progress, options, MappedProgressTimes2(p), 2)
    /\ UNCHANGED <<pc, imageFile, customOptions, options, webpSupported,
                   moduleOptions, calls,
                   outcome, originalDimensions, smartDimensions, processedFile,
                   compressedFile, webpFile, finalFile, result,
                   compressionOptions, objectURLs>>

\* lines 193-209 (or -242): imageCompression settles with a file of `size`
\* bytes, or rejects (ok = FALSE) into the outer catch
CompressSettled(ok, size) ==
    /\ pc = "compress"
    /\ outcome' = [outcome EXCEPT !.compress = IF ok THEN "ok" ELSE "fail"]
    /\ UNCHANGED <<imageFile, customOptions, options, webpSupported,
                   moduleOptions, libProgress,
                   originalDimensions, smartDimensions, processedFile, webpFile,
                   compressionOptions>>
    /\ IF ok
       THEN LET fileType == TypeOrJpeg(processedFile)
                kept == KeepCompressed(NewFile("compressed", size, fileType, "lib"),
                                       processedFile)
                p70 == updateProgress(progress, options, 70, 1)
            IN  /\ compressedFile' = kept
                /\ finalFile' = kept
                /\ IF AttemptWebP(options, webpSupported, fileType)
                   THEN /\ progress' = updateProgress(p70, options, 75, 1)
                        /\ calls' = Append(calls, "webp")
                        /\ pc' = "webp"
                        /\ result' = result
                        /\ objectURLs' = objectURLs
                   ELSE Finish(p70, calls, kept)
       ELSE /\ UNCHANGED <<compressedFile, finalFile, calls, objectURLs>>
            /\ Catch(progress)

\* lines 209-242: convertToWebP settles with a blob of `size` bytes written by
\* encoder `enc` (webp, or jpeg when the WebP encoding came out empty), or
\* rejects (ok = FALSE) into the inner catch
WebPSettled(ok, size, enc) ==
    /\ pc = "webp"
    /\ outcome' = [outcome EXCEPT !.webp = IF ok THEN "ok" ELSE "fail"]
    /\ UNCHANGED <<imageFile, customOptions, options, webpSupported,
                   moduleOptions, libProgress,
                   originalDimensions, smartDimensions, processedFile,
                   compressedFile, compressionOptions>>
    /\ IF ok
       THEN LET made == NewFile("webp", size, "image/webp", enc)
                final == IF AcceptWebP(made, compressedFile) THEN made
                         ELSE compressedFile
                p85 == updateProgress(progress, options, 85, 1)
            IN  /\ webpFile' = made
                /\ finalFile' = final
                /\ Finish(updateProgress(p85, options, 90, 1), calls, final)
       ELSE /\ UNCHANGED <<webpFile, finalFile>>
            /\ Finish(progress, calls, finalFile)

\* line 236: the debug block's getImageDimensions(imageFile) settles
DebugProbe1Settled(ok) ==
    /\ pc = "debug1"
    /\ UNCHANGED <<imageFile, customOptions, options, webpSupported,
                   moduleOptions, libProgress,
                   originalDimensions, smartDimensions, processedFile,
                   compressedFile, webpFile, finalFile, compressionOptions>>
    /\ IF ok
       THEN /\ pc' = "debug2"
            /\ calls' = Append(calls, "debugProbe")
            /\ objectURLs' = createObjectURL(ProbeFinished(objectURLs, TRUE))
            /\ UNCHANGED <<outcome, progress, result>>
       ELSE /\ outcome' = [outcome EXCEPT !.debug = "fail"]
            /\ calls' = calls
            /\ objectURLs' = ProbeFinished(objectURLs, FALSE)
            /\ Catch(progress)

\* lines 237-242: the debug block's getImageDimensions(finalFile) settles
DebugProbe2Settled(ok) ==
    /\ pc = "debug2"
    /\ UNCHANGED <<imageFile, customOptions, options, webpSupported,
                   moduleOptions, libProgress,
                   originalDimensions, smartDimensions, processedFile,
                   compressedFile, webpFile, finalFile, calls,
                   compressionOptions>>
    /\ objectURLs' = ProbeFinished(objectURLs, ok)
    /\ IF ok
       THEN /\ outcome' = [outcome EXCEPT !.debug = "ok"]
            /\ pc' = "done"
            /\ progress' = updateProgress(progress, options, 100, 1)
            /\ result' = finalFile
       ELSE /\ outcome' = [outcome EXCEPT !.debug = "fail"]
            /\ Catch(progress)

Encoders == {"webp", "jpeg"}

Next ==
    \/ \E f \in Inputs, c \in CustomOptionSets :
           optimizeImage(f, c) /\ UNCHANGED otherVars
    \/ \E d \in ProbeDims \cup {NoDims} : ProbeSettled(d) /\ UNCHANGED otherVars
    \/ \E s \in OutputSizes : ResizeSettled(TRUE, s) /\ UNCHANGED otherVars
    \/ ResizeSettled(FALSE, 0) /\ UNCHANGED otherVars
    \/ \E p \in LibProgressValues : CompressProgress(p) /\ UNCHANGED otherVars
    \/ \E s \in OutputSizes : CompressSettled(TRUE, s) /\ UNCHANGED otherVars
    \/ CompressSettled(FALSE, 0) /\ UNCHANGED otherVars
    \/ \E s \in OutputSizes, e \in Encoders :
           WebPSettled(TRUE, s, e) /\ UNCHANGED otherVars
    \/ WebPSettled(FALSE, 0, "") /\ UNCHANGED otherVars
    \/ \E ok \in BOOLEAN : DebugProbe1Settled(ok) /\ UNCHANGED otherVars
    \/ \E ok \in BOOLEAN : DebugProbe2Settled(ok) /\ UNCHANGED otherVars

Spec == Init /\ [][Next]_vars

---------------------------------------------------------------------------
(* Two optimizeImage calls in flight: the event loop runs one call from one  *)
(* await to the next, then either of the two                                 *)

\* the locals of the call that is running
Here ==
    [pc |-> pc, imageFile |-> imageFile, customOptions |-> customOptions,
     options |-> options, progress |-> progress, libProgress |-> libProgress,
     calls |-> calls, outcome |-> outcome,
     originalDimensions |-> originalDimensions,
     smartDimensions |-> smartDimensions, processedFile |-> processedFile,
     compressedFile |-> compressedFile, webpFile |-> webpFile,
     finalFile |-> finalFile, result |-> result,
     compressionOptions |-> compressionOptions]

\* at an await the other call is resumed: each call keeps its own locals,
\* the module's objects and the runtime are the same for both
Switch ==
    /\ parked' = Here
    /\ current' = 3 - current
    /\ pc' = parked.pc
    /\ imageFile' = parked.imageFile
    /\ customOptions' = parked.customOptions
    /\ options' = parked.options
    /\ progress' = parked.progress
    /\ libProgress' = parked.libProgress
    /\ calls' = parked.calls
    /\ outcome' = parked.outcome
    /\ originalDimensions' = parked.originalDimensions
    /\ smartDimensions' = parked.smartDimensions
    /\ processedFile' = parked.processedFile
    /\ compressedFile' = parked.compressedFile
    /\ webpFile' = parked.webpFile
    /\ finalFile' = parked.finalFile
    /\ result' = parked.result
    /\ compressionOptions' = parked.compressionOptions
    /\ UNCHANGED <<webpSupported, objectURLs, moduleOptions, calcVars,
                   clientVars, notifVars>>

\* the files, options and capability results of the two calls
TwoInputs == {NewFile("input", SkipLimit + 1, "image/jpeg", "orig")}

TwoCustoms ==
    {NoCustom, [NoCustom EXCEPT !.onProgress = 1],
     [NoCustom EXCEPT !.onProgress = 1, !.debug = 1]}

TwoDims == {Dims(1200, 600), NoDims}

TwoSizes == {SkipLimit, SkipLimit + 1}

NextTwo ==
    \/ \E f \in TwoInputs, c \in TwoCustoms :
           optimizeImage(f, c) /\ UNCHANGED otherVars
    \/ \E d \in TwoDims : ProbeSettled(d) /\ UNCHANGED otherVars
    \/ ResizeSettled(TRUE, SkipLimit) /\ UNCHANGED otherVars
    \/ ResizeSettled(FALSE, 0) /\ UNCHANGED otherVars
    \/ CompressProgress(100) /\ UNCHANGED otherVars
    \/ \E sz \in TwoSizes : CompressSettled(TRUE, sz) /\ UNCHANGED otherVars
    \/ CompressSettled(FALSE, 0) /\ UNCHANGED otherVars
    \/ \E sz \in TwoSizes : WebPSettled(TRUE, sz, "webp") /\ UNCHANGED otherVars
    \/ WebPSettled(FALSE, 0, "") /\ UNCHANGED otherVars
    \/ \E ok \in BOOLEAN : DebugProbe1Settled(ok) /\ UNCHANGED otherVars
    \/ \E ok \in BOOLEAN : DebugProbe2Settled(ok) /\ UNCHANGED otherVars
    \/ Switch

SpecTwo == Init /\ [][NextTwo]_vars

---------------------------------------------------------------------------
(* calculateSmartDimensions called on its own *)

\* the widths and heights calculateSmartDimensions is applied to, in pixels
CalcSizes == {100 * k : k \in 1 .. MaxDimK}

\* the values of the third argument, which the function ignores
CalcMaxDims == {400, 300}

\* lines 343-371: one call of calculateSmartDimensions(w, h, m)
CalcCall(w, h, m) ==
    /\ calcIn' = <<w, h, m>>
    /\ calcOut' = calculateSmartDimensions(w, h, m)
    /\ UNCHANGED <<pipeVars, clientVars, twoVars, notifVars>>

NextCalc == \E w \in CalcSizes, h \in CalcSizes, m \in CalcMaxDims : CalcCall(w, h, m)

SpecCalc == Init /\ [][NextCalc]_vars

---------------------------------------------------------------------------
(* utils/supabase.ts: the module is loaded, then createClient and getUser  *)
(* are called any number of times                                          *)

\* the module after its top-level code has run, in each of its versions
InitClient ==
    /\ pc = "idle"
    /\ imageFile = NoFile
    /\ customOptions = NoCustom
    /\ options = defaultOptions
    /\ webpSupported = TRUE
    /\ progress = <<>>
    /\ libProgress = <<>>
    /\ calls = <<>>
    /\ outcome = NoOutcome
    /\ originalDimensions = NoDims
    /\ smartDimensions = NoDims
    /\ processedFile = NoFile
    /\ compressedFile = NoFile
    /\ webpFile = NoFile
    /\ finalFile = NoFile
    /\ result = NoFile
    /\ compressionOptions = NoCompression
    /\ objectURLs = 0
    /\ moduleOptions = defaultOptions
    /\ parked = NoCall
    /\ current = 1
    /\ calcIn = <<>>
    /\ calcOut = NoDims
    /\ clientVariant \in ClientVariants
    /\ supabaseClient = IF clientVariant = "lazy" THEN NoClient
                        ELSE createBrowserClient(0)
    /\ constructed = IF clientVariant = "lazy" THEN 0 ELSE 1
    /\ returned = <<>>
    /\ authCallCount = 0
    /\ authLogs = 0
    /\ unreadCount = 0
    /\ isLoading = TRUE
    /\ mounted = "no"
    /\ fetches = <<>>

\* supabase.ts:7-17: createClient() of the version that creates on first use
createClientLazy ==
    /\ clientVariant = "lazy"
    /\ Len(returned) < MaxClientCalls
    /\ IF NeedsClient(supabaseClient)
       THEN /\ supabaseClient' = createBrowserClient(constructed)
            /\ constructed' = constructed + 1
       ELSE UNCHANGED <<supabaseClient, constructed>>
    /\ returned' = Append(returned, supabaseClient')
    /\ UNCHANGED <<clientVariant, authCallCount, authLogs, pipeVars, calcVars,
                   twoVars, notifVars>>

\* supabase.ts:27-29, 58-60 and unnamed/part_000:27-29: createClient() of the
\* versions that create the client at load
createClientEager ==
    /\ clientVariant # "lazy"
    /\ Len(returned) < MaxClientCalls
    /\ returned' = Append(returned, supabaseClient)
    /\ UNCHANGED <<clientVariant, supabaseClient, constructed, authCallCount,
                   authLogs, pipeVars, calcVars, twoVars, notifVars>>

\* supabase.ts:48-54 and unnamed/part_000:15-23: the wrapper around
\* auth.getUser counts the call, logs every n-th one and calls the original
getUser ==
    /\ LogEvery(clientVariant) > 0
    /\ authCallCount < MaxAuthCalls
    /\ authCallCount' = authCallCount + 1
    /\ authLogs' = IF authCallCount' % LogEvery(clientVariant) = 0
                   THEN authLogs + 1 ELSE authLogs
    /\ UNCHANGED <<clientVariant, supabaseClient, constructed, returned,
                   pipeVars, calcVars, twoVars, notifVars>>

NextClient == createClientLazy \/ createClientEager \/ getUser

SpecClient == InitClient /\ [][NextClient]_vars

---------------------------------------------------------------------------
(* NotificationIndicator: the effect runs at mount, realtime events start   *)
(* further fetches, and every fetch runs from one await to the next          *)

\* a state setter of a component: React drops updates of an unmounted one
SetState(old, new) == IF mounted = "yes" THEN new ELSE old

\* line 462: count || 0
CountOrZero(count) == IF Truthy(count) THEN count ELSE 0

\* what the query's count can be: null, or a number
QueryCounts == {Undef} \cup (0 .. MaxCount)

InFlight(fetch) == fetch.stage \in {"getUser", "query"}

\* lines 446-448: fetchUnreadCount() up to the await of auth.getUser(), which
\* goes through the wrapper of utils/supabase.ts where there is one
StartFetch ==
    /\ isLoading' = SetState(isLoading, TRUE)
    /\ fetches' = Append(fetches, [stage |-> "getUser", count |-> Undef])
    /\ authCallCount' = IF LogEvery(clientVariant) > 0 THEN authCallCount + 1
                        ELSE authCallCount
    /\ authLogs' = IF /\ LogEvery(clientVariant) > 0
                      /\ authCallCount' % LogEvery(clientVariant) = 0
                   THEN authLogs + 1 ELSE authLogs
    /\ UNCHANGED <<unreadCount, clientVariant, supabaseClient, constructed,
                   returned, pipeVars, calcVars, twoVars>>

\* the module as the component imports it, before the component mounts
InitNotif ==
    /\ InitClient
    /\ clientVariant # "lazy"

\* lines 444-498: the effect of the first render: the first fetch starts and
\* the channel is subscribed
Mount ==
    /\ mounted = "no"
    /\ mounted' = "yes"
    /\ StartFetch

\* lines 482-484 and 492-494: the handler of an INSERT or UPDATE event
RealtimeEvent(event) ==
    /\ mounted = "yes"
    /\ Len(fetches) < MaxFetches
    /\ mounted' = mounted
    /\ StartFetch

\* lines 448-454 (and 463-467): auth.getUser() of fetch i settles with a user,
\* with no user, or rejects
GetUserSettled(i, res) ==
    /\ i \in 1 .. Len(fetches)
    /\ fetches[i].stage = "getUser"
    /\ IF res = "user"
       THEN /\ fetches' = [fetches EXCEPT ![i].stage = "query"]
            /\ isLoading' = isLoading
       ELSE /\ fetches' = [fetches EXCEPT
                               ![i].stage = IF res = "null" THEN "noUser"
                                            ELSE "failed"]
            /\ isLoading' = SetState(isLoading, FALSE)
    /\ UNCHANGED <<unreadCount, mounted, clientVars, pipeVars, calcVars, twoVars>>

\* lines 455-467: the notifications query of fetch i settles with a count,
\* or with an error (or rejects)
QuerySettled(i, count, error) ==
    /\ i \in 1 .. Len(fetches)
    /\ fetches[i].stage = "query"
    /\ IF error
       THEN /\ fetches' = [fetches EXCEPT ![i].stage = "failed"]
            /\ unreadCount' = unreadCount
       ELSE /\ fetches' = [fetches EXCEPT ![i] = [stage |-> "done", count |-> count]]
            /\ unreadCount' = SetState(unreadCount, CountOrZero(count))
    /\ isLoading' = SetState(isLoading, FALSE)
    /\ UNCHANGED <<mounted, clientVars, pipeVars, calcVars, twoVars>>

\* lines 500-502: the cleanup of the effect removes the channel
Unmount ==
    /\ mounted = "yes"
    /\ mounted' = "gone"
    /\ UNCHANGED <<unreadCount, isLoading, fetches, clientVars, pipeVars,
                   calcVars, twoVars>>

NextNotif ==
    \/ Mount
    \/ \E event \in {"INSERT", "UPDATE"} : RealtimeEvent(event)
    \/ \E i \in 1 .. MaxFetches, res \in {"user", "null", "reject"} :
           GetUserSettled(i, res)
    \/ \E i \in 1 .. MaxFetches, count \in QueryCounts :
           QuerySettled(i, count, FALSE)
    \/ \E i \in 1 .. MaxFetches : QuerySettled(i, Undef, TRUE)
    \/ Unmount

SpecNotif == InitNotif /\ [][NextNotif]_vars

---------------------------------------------------------------------------
(* Vocabulary of the properties *)

Returned == pc = "done"

HasCallback == Truthy(options.onProgress)

Last(seq) == seq[Len(seq)]

\* capability `stage` has been invoked
Invoked(stage) == \E i \in 1 .. Len(calls) : calls[i] = stage

\* the stages of the pipeline, in the order of the code
Stages == <<"probe", "resize", "compress", "webp">>

StageRank(stage) == CHOOSE i \in 1 .. Len(Stages) : Stages[i] = stage

IsStage(call) == call # "debugProbe"

\* the capability calls of the pipeline proper, in the order they were made
StageCalls == SelectSeq(calls, IsStage)

\* lines 85-251 read for one call on its own: the file call c returns, from
\* its own arguments and the results its own capability calls gave
AloneResult(c) ==
    IF ShouldSkip(c.imageFile) THEN c.imageFile
    ELSE IF c.outcome.compress = "fail" \/ c.outcome.debug = "fail"
         THEN c.imageFile
    ELSE IF c.outcome.webp = "ok" /\ c.webpFile.size < c.compressedFile.size
         THEN c.webpFile
    ELSE c.compressedFile

\* lines 98-246 read for one call on its own: the values call c delivers to
\* its onProgress callback by the time it returns
AloneProgress(c) ==
    LET opts == MergeOptions(defaultOptions, c.customOptions)
        Tick(cond, v) == IF cond THEN <<v>> ELSE <<>>
        lib == [i \in 1 .. Len(c.libProgress) |->
                   Min(MathRound(30 + c.libProgress[i], 2), 100)]
    IN  IF ~Truthy(opts.onProgress) THEN <<>>
        ELSE IF ShouldSkip(c.imageFile) THEN <<5, 100>>
        ELSE <<5>> \o Tick(c.outcome.probe = "ok", 10)
                  \o Tick(c.outcome.resize # "none", 12)
                  \o Tick(c.outcome.resize = "ok", 14)
                  \o <<15>> \o lib
                  \o Tick(c.outcome.compress = "ok", 70)
                  \o Tick(c.outcome.webp # "none", 75)
                  \o Tick(c.outcome.webp = "ok", 85)
                  \o Tick(c.outcome.webp = "ok", 90)
                  \o <<100>>

\* a call that has returned returned what it returns on its own
AsAlone(c) ==
    c.pc = "done" =>
        /\ c.result = AloneResult(c)
        /\ c.progress = AloneProgress(c)

\* under Spec, where there is one call: AloneResult and AloneProgress are
\* what the call does
AloneIsAlone == AsAlone(Here)

NonDecreasing(seq) == \A i \in 1 .. (Len(seq) - 1) : seq[i] <= seq[i + 1]

---------------------------------------------------------------------------
(* C1 *)

---------------------------------------------------------------------------
(* C2 *)

\* C2: whenever a call with a valid File returns, the returned file is no
\* larger than the input file, whatever sizes the resize, compression and
\* WebP capabilities produced.
C2_NeverLargerThanInput == Returned => result.size <= imageFile.size

---------------------------------------------------------------------------
(* C3 *)

\* C3: given a valid File, the call never raises, whichever of the dimension
\* probe, the smart resize, the compression and the WebP conversion fail and
\* with debug on or off: it returns a file, and until it has returned some
\* step of it can still be taken.
C3_NeverRaises ==
    (pc # "idle" /\ imageFile.kind = "File") =>
        /\ pc # "thrown"
        /\ Returned => result.kind = "File"
        /\ ~Returned => ENABLED Next

C3_Witness ==
    /\ Returned
    /\ outcome.probe = "fail"
    /\ outcome.webp = "fail"
    /\ outcome.debug = "fail"
    /\ result = imageFile

---------------------------------------------------------------------------
(* C4 *)

\* C4 as claimed: on a stage failure the file returned is the most recent
\* intermediate: the resized file when compression fails after a successful
\* resize, the compressed file when WebP conversion fails, and the original
\* only when no earlier stage produced a file.
C4_LastGoodIntermediate ==
    Returned =>
        /\ (outcome.resize = "ok" /\ outcome.compress = "fail") =>
               result = processedFile
        /\ outcome.webp = "fail" => result = compressedFile
        /\ (outcome.compress = "fail" /\ result = imageFile) =>
               outcome.resize # "ok"

\* C4 as amended: a failed compression returns the original input, also
\* after a successful resize; a failed resize sends the original into
\* compression; a failed WebP conversion returns the file kept after
\* compression, unless a debug dimension probe then fails, which returns the
\* original as well.
C4_FallbackIsOriginal ==
    Returned =>
        /\ outcome.compress = "fail" => result = imageFile
        /\ outcome.resize = "fail" => processedFile = imageFile
        /\ (outcome.webp = "fail" /\ outcome.debug # "fail") =>
               result = compressedFile
        /\ outcome.debug = "fail" => result = imageFile

C4_Witness ==
    /\ Returned
    /\ outcome.resize = "ok"
    /\ outcome.compress = "fail"
    /\ processedFile.id = "resized"
    /\ result = imageFile

---------------------------------------------------------------------------
(* C5 *)

---------------------------------------------------------------------------
(* C6 *)

\* C6: a call given a valid File and an onProgress callback reports 100, and
\* 100 is the last value reported when it returns, on the success, skip and
\* catch paths; until it has returned, some step of it can still be taken.
C6_EndsAtHundred ==
    (pc # "idle" /\ imageFile.kind = "File" /\ HasCallback) =>
        /\ Returned => (progress # <<>> /\ Last(progress) = 100)
        /\ ~Returned => (ENABLED Next /\ progress # <<>> /\ Last(progress) < 100)

\* The same as a leads-to property, which holds under FairSpec: every
\* awaited capability settles, so a step that stays enabled is taken.
FairSpec == Spec /\ WF_vars(Next)

C6_LeadsToHundred ==
    (pc # "idle" /\ imageFile.kind = "File" /\ HasCallback)
        ~> (Returned /\ progress # <<>> /\ Last(progress) = 100)

C6_Witness ==
    /\ Returned
    /\ HasCallback
    /\ outcome.compress = "fail"
    /\ Len(progress) > 2
    /\ Last(progress) = 100

---------------------------------------------------------------------------
(* C7 *)

\* C7 as claimed: every input that is null or is not an image file is
\* rejected before any work: nothing is reported to onProgress and no
\* capability is invoked.
C7_RejectsNonImages ==
    (pc # "idle" /\ (imageFile.kind # "File" \/ imageFile.type = "text/plain")) =>
        /\ pc = "thrown"
        /\ progress = <<>>
        /\ calls = <<>>

\* C7 as amended: exactly the inputs that are null or not a File instance
\* are rejected, before any work (nothing reported, no capability invoked,
\* no file returned); a File whose type is not an image type is accepted.
C7_RejectsNonFiles ==
    /\ pc = "thrown" <=> (pc # "idle" /\ imageFile.kind # "File")
    /\ pc = "thrown" => (progress = <<>> /\ calls = <<>> /\ result = NoFile)

C7_Witness ==
    /\ pc = "thrown"
    /\ imageFile = ObjectInput
    /\ customOptions.onProgress = 1
    /\ progress = <<>>

---------------------------------------------------------------------------
(* C8 *)

\* C8: the effective options are the defaults overridden only by the caller
\* keys that carry a value: a key left out or passed as undefined keeps its
\* default.
C8_UndefinedKeepsDefault ==
    (pc \notin {"idle", "thrown"}) =>
        \A k \in OptionKeys :
            options[k] = IF customOptions[k] \in {Absent, Undef}
                         THEN defaultOptions[k]
                         ELSE customOptions[k]

---------------------------------------------------------------------------
(* C9 *)

\* C9 as claimed: calculateSmartDimensions gives 200 x 200 for every width
\* and height with 0.909 <= width/height <= 1.1, and 400 x 200 for
\* width/height = 2.
C9_SquareClosedInterval ==
    calcIn # <<>> =>
        LET w == calcIn[1]
            h == calcIn[2]
        IN  /\ (1000 * w >= 909 * h /\ 10 * w <= 11 * h) => calcOut = Dims(200, 200)
            /\ w = 2 * h => calcOut = Dims(400, 200)

\* C9 as amended: calculateSmartDimensions gives 200 x 200 for every width
\* and height with 0.909 <= width/height < 1.1, the upper end excluded
\* (width/height = 1.1 gives 220 x 200), and 400 x 200 for width/height = 2.
C9_SquareHalfOpenInterval ==
    calcIn # <<>> =>
        LET w == calcIn[1]
            h == calcIn[2]
        IN  /\ (1000 * w >= 909 * h /\ 10 * w < 11 * h) => calcOut = Dims(200, 200)
            /\ 10 * w = 11 * h => calcOut = Dims(220, 200)
            /\ w = 2 * h => calcOut = Dims(400, 200)

C9_Witness ==
    /\ calcIn = <<1000, 1100, 400>>
    /\ calcOut = Dims(200, 200)

---------------------------------------------------------------------------
(* C10 *)

---------------------------------------------------------------------------
(* C11 *)

\* C11: after any sequence of createClient() calls every call has returned
\* the same client instance, which is the module's supabaseClient, and
\* createBrowserClient has been invoked at most once.
C11_SingleClient ==
    /\ constructed <= 1
    /\ \A i \in 1 .. Len(returned) :
           returned[i] = supabaseClient /\ returned[i] # NoClient

C11_Witness ==
    /\ clientVariant = "lazy"
    /\ Len(returned) = 3
    /\ returned = <<1, 1, 1>>
    /\ constructed = 1

---------------------------------------------------------------------------
(* C12 *)

\* C12: for an input above 50 KiB the smart-resize capability is invoked if
\* and only if enableSmartResize is true, the dimension probe succeeded and
\* max(width, height) exceeds the configured resizeThreshold, for every
\* configured threshold, 0 included.
C12_ResizeIffAboveThreshold ==
    (outcome.probe # "none" /\ options.resizeThreshold # Undef) =>
        (Invoked("resize") <=>
            /\ Truthy(options.enableSmartResize)
            /\ outcome.probe = "ok"
            /\ Max(originalDimensions.width, originalDimensions.height)
                   > options.resizeThreshold)

---------------------------------------------------------------------------
(* C13 *)

\* C13: whenever smart resize triggers, the target dimensions are no larger
\* than the original image's on either axis: the pass only downsamples, also
\* for elongated images whose shorter side is below 200 px.
C13_OnlyDownsamples ==
    Invoked("resize") =>
        /\ smartDimensions.width <= originalDimensions.width
        /\ smartDimensions.height <= originalDimensions.height

---------------------------------------------------------------------------
(* C14 *)

ConfiguredQuality ==
    IF customOptions.quality \in {Absent, Undef} THEN defaultOptions.quality
    ELSE customOptions.quality

\* C15: imageCompression is called with initialQuality 0.9 exactly when smart
\* resize produced a new file; in every other case (resize disabled, probe
\* failed, image below the threshold, resize failed) it is called with the
\* configured quality, 0.8 when the caller configured none, and with the
\* original input as its file.
C15_QualityFollowsResize ==
    Invoked("compress") =>
        /\ compressionOptions.initialQuality = 90 <=> outcome.resize = "ok"
        /\ outcome.resize = "ok" => compressionOptions.file.id = "resized"
        /\ outcome.resize # "ok" =>
               /\ compressionOptions.initialQuality = ConfiguredQuality
               /\ compressionOptions.file = imageFile

C17_WebPAttemptedIff ==
    LET wanted == /\ options.useWebP = 1
                  /\ webpSupported
                  /\ TypeOrJpeg(compressionOptions.file) # "image/webp"
    IN  /\ Invoked("webp") => wanted /\ outcome.compress = "ok"
        /\ (outcome.compress = "ok" /\ wanted) => Invoked("webp")

C17_Witness ==
    /\ Returned
    /\ outcome.compress = "ok"
    /\ options.useWebP = 1
    /\ webpSupported
    /\ compressionOptions.file.type = "image/webp"
    /\ ~Invoked("webp")

\* C18: within one call the stages start in the order dimension probe, smart
\* resize, compression, WebP conversion, and a stage starts only after every
\* stage started before it has settled, with a result or a handled failure.
C18_StagesInOrder ==
    /\ \A i, j \in 1 .. Len(StageCalls) :
           i < j => StageRank(StageCalls[i]) < StageRank(StageCalls[j])
    /\ \A i \in 1 .. Len(StageCalls) :
           i < Len(StageCalls) => outcome[StageCalls[i]] \in {"ok", "fail"}
    /\ \A i \in 1 .. Len(Stages) :
           outcome[Stages[i]] # "none" => Invoked(Stages[i])
    /\ Invoked("resize") => outcome.probe = "ok"
    /\ Invoked("compress") => outcome.probe \in {"ok", "fail"}
    /\ Invoked("webp") => outcome.compress = "ok"

C18_Witness ==
    /\ StageCalls = Stages
    /\ outcome.resize = "fail"
    /\ outcome.webp = "ok"
    /\ Returned

\* C20: every object URL that getImageDimensions creates for a probe is
\* revoked when that probe finishes, whether the image loaded or failed to
\* load: a URL is outstanding only while a probe is in flight.
C20_ProbeURLsRevoked ==
    objectURLs = IF pc \in {"probe", "debug1", "debug2"} THEN 1 ELSE 0

C20_Witness ==
    /\ Returned
    /\ outcome.probe = "fail"
    /\ outcome.debug = "ok"
    /\ objectURLs = 0

\* C19: two optimizeImage calls whose steps interleave in any way do not
\* affect each other: each call returns the file, and delivers to its own
\* onProgress the sequence of values, that it returns and delivers when it
\* runs alone.
C19_CallsDoNotInterfere == AsAlone(Here) /\ AsAlone(parked)

C19_Witness ==
    /\ Returned
    /\ parked.pc = "done"
    /\ HasCallback
    /\ parked.customOptions = NoCustom
    /\ Len(progress) > 5
    /\ parked.progress = <<>>
    /\ result.id = "webp"
    /\ parked.result = parked.imageFile

\* the format of the bytes of file f: what convertToWebP's encoder wrote
\* (lines 305-326), and for every other file the type it was made with
EncodedAs(f) ==
    IF f.enc = "webp" THEN "image/webp"
    ELSE IF f.enc = "jpeg" THEN "image/jpeg"
    ELSE f.type

\* C21: every file optimizeImage returns with the MIME type image/webp
\* holds WebP-encoded bytes, also in a run where convertToWebP's WebP
\* encoding came out empty and it fell back to JPEG encoding.
C21_WebPLabelMeansWebPBytes ==
    (Returned /\ result.kind = "File" /\ result.type = "image/webp") =>
        EncodedAs(result) = "image/webp"

\* the fetches that reached setUnreadCount
SucceededFetches == {i \in 1 .. Len(fetches) : fetches[i].stage = "done"}

\* C22: in a mounted NotificationIndicator, whatever the interleaving of the
\* mount-time fetch and the fetches started by INSERT and UPDATE events, once
\* no fetch is in flight unreadCount is the count of the successful fetch
\* that started last: an older fetch completing later does not overwrite it.
C22_LatestFetchWins ==
    (/\ mounted = "yes"
     /\ \A i \in 1 .. Len(fetches) : ~InFlight(fetches[i])
     /\ SucceededFetches # {}) =>
        LET latest == CHOOSE i \in SucceededFetches :
                          \A j \in SucceededFetches : j <= i
        IN  unreadCount = CountOrZero(fetches[latest].count)

====
